---- MODULE Spec2Model ----
(***************************************************************************)
(* Model of src/app.py: the AI Guild project tracker.                      *)
(*                                                                         *)
(* State: the SQLite table `projects` (with its AUTOINCREMENT counter),    *)
(* the Google Sheets mirror (the rows of Projects!A2:I), the clock that    *)
(* CURRENT_TIMESTAMP and datetime.now() read, the Streamlit session state  *)
(* and the record of the last function call with the table and the sheet   *)
(* as they were when it was made, the record of the last run of the        *)
(* script, and the calls of update_project that sessions have in progress. *)
(*                                                                         *)
(* Text that the code inspects character by character (one-liner,          *)
(* description, WhatsApp contact) is a sequence of one-character strings;  *)
(* text it only stores and compares is a string.  A message is the         *)
(* sequence of the literal fragments the code's f-strings join.            *)
(*                                                                         *)
(* The local database file is assumed to be available: sqlite3.connect     *)
(* and the statements fail only by the UNIQUE constraint.                  *)
(***************************************************************************)
EXTENDS Integers, Sequences, FiniteSets, TLC

VARIABLES projects, seq, sheet, now, session_state, project_to_edit, rendered, run, last,
          calls

vars == <<projects, seq, sheet, now, session_state, project_to_edit, rendered, run, last,
          calls>>

(***************************************************************************)
(* Bounds of the model.                                                    *)
(***************************************************************************)
\* the clock runs from 0 to MaxClock seconds
MaxClock == 1
\* the AUTOINCREMENT counter is allowed to reach MaxId
MaxId == 3

(***************************************************************************)
(* Program constants.                                                      *)
(***************************************************************************)
PROJECT_STATUSES == {"Idea", "MVP", "Launch"}
MaxOneLiner == 250
MaxDescriptionWords == 100
CountryCodeMin == 1
CountryCodeMax == 3
SubscriberDigits == 10
\* `return None` of find_row_in_sheets; row numbers start at 2
None == 0

\* what \d matches: the ASCII digits and the other Unicode decimal digits, of
\* which "u0663" stands for one (U+0663, ARABIC-INDIC DIGIT THREE)
Digits == {"0", "1", "2", "3", "4", "5", "6", "7", "8", "9", "u0663"}
Whitespace == {" ", "\n", "\t"}

Min(S) == CHOOSE x \in S : \A y \in S : x <= y

\* a text of n characters without whitespace
Chars(n) == [i \in 1..n |-> "a"]
\* a text of n words separated by single spaces
Words(n) == [i \in 1..(IF n = 0 THEN 0 ELSE 2 * n - 1) |-> IF i % 2 = 1 THEN "w" ELSE " "]

(***************************************************************************)
(* Validation, src/app.py:267-275                                          *)
(***************************************************************************)
\* re.match(r'^\+\d{1,3}\d{10}$', number): '+', then k digits for some k in
\* 1..3, then 10 digits, then the end of the string or one final newline
\* (Python's $ also matches just before a trailing newline).
\* the pattern without its final $
validate_whatsapp_NoEnd(number) ==
    \E k \in CountryCodeMin..CountryCodeMax :
        LET n == 1 + k + SubscriberDigits
        IN  /\ Len(number) >= n
            /\ number[1] = "+"
            /\ \A i \in 2..n : number[i] \in Digits

validate_whatsapp(number) ==
    \E k \in CountryCodeMin..CountryCodeMax :
        LET n == 1 + k + SubscriberDigits
        IN  /\ Len(number) >= n
            /\ number[1] = "+"
            /\ \A i \in 2..n : number[i] \in Digits
            /\ \/ Len(number) = n
               \/ Len(number) = n + 1 /\ number[n + 1] = "\n"

validate_one_liner(text) == Len(text) <= MaxOneLiner

\* len(text.split()): the number of maximal runs of non-whitespace
SplitCount(text) ==
    Cardinality({i \in 1..Len(text) :
                    /\ text[i] \notin Whitespace
                    /\ (i = 1 \/ text[i - 1] \in Whitespace)})

validate_description(text) == SplitCount(text) <= MaxDescriptionWords

(***************************************************************************)
(* The Google Sheets mirror, src/app.py:67-78, 148-218                     *)
(*                                                                         *)
(* sheet[i] is row i + 1 of the sheet Projects (row 1 is the header): a    *)
(* tuple of nine cells, or <<>> for a row whose cells are all empty.       *)
(* values().get leaves out the empty rows after the last row with data     *)
(* and returns an empty row before it as an empty list; values().append    *)
(* writes after the last row with data.  env says which remote steps work  *)
(* during a call: env.service (init_google_sheets returns a service),      *)
(* env.get (values().get answers), env.write (append, update or clear      *)
(* answers); at most one of them fails in a call, the first that fails     *)
(* being the one that decides the call.                                    *)
(***************************************************************************)
Envs == {[service |-> TRUE, get |-> TRUE, write |-> TRUE],
         [service |-> FALSE, get |-> TRUE, write |-> TRUE],
         [service |-> TRUE, get |-> FALSE, write |-> TRUE],
         [service |-> TRUE, get |-> TRUE, write |-> FALSE]}

AllWork == [service |-> TRUE, get |-> TRUE, write |-> TRUE]

\* str(e) of a Google API failure
ApiError == "<HttpError>"

init_google_sheets(env) == env.service

RECURSIVE TrimBlank(_)
TrimBlank(rows) ==
    IF rows # <<>> /\ rows[Len(rows)] = <<>>
    THEN TrimBlank(SubSeq(rows, 1, Len(rows) - 1))
    ELSE rows

\* the 'values' of service.spreadsheets().values().get(range = RANGE_NAME)
SheetValues(rows) == TrimBlank(rows)

\* for idx, row in enumerate(rows): if row[0] == project_name: return idx + 2
\* row[0] of an empty row raises IndexError, which the except turns into None
find_row_in_sheets(env, rows, project_name) ==
    IF ~env.get THEN None
    ELSE LET values == SheetValues(rows)
             stops == {i \in 1..Len(values) :
                          values[i] = <<>> \/ values[i][1] = project_name}
         IN  IF stops = {} THEN None
             ELSE IF values[Min(stops)] = <<>> THEN None
             ELSE Min(stops) + 1

SheetRow(project_data, clock, is_update) ==
    << project_data.project_name, project_data.one_liner, project_data.description,
       project_data.ai_usage, project_data.lead_name, project_data.whatsapp_contact,
       project_data.status, clock, IF is_update THEN "Updated" ELSE "New Entry" >>

\* values().update that leaves the row as it was
SheetUpdate_NoWrite(rows, row_number, values) == rows

\* values().update(range = 'Projects!A{row_number}:I{row_number}')
SheetUpdate(rows, row_number, values) ==
    [rows EXCEPT ![row_number - 1] = values]

\* values().clear(range = 'Projects!A{row_number}:I{row_number}')
SheetClear(rows, row_number) ==
    TrimBlank([rows EXCEPT ![row_number - 1] = <<>>])

\* values().append(range = RANGE_NAME, insertDataOption = 'INSERT_ROWS')
SheetAppend(rows, values) == Append(TrimBlank(rows), values)

\* returns (success, message) and the sheet it leaves
sync_to_sheets(rows, clock, project_data, is_update, env) ==
    IF ~init_google_sheets(env)
    THEN [ok |-> FALSE, msg |-> <<"Failed to connect to Google Sheets">>, sheet |-> rows]
    ELSE LET values == SheetRow(project_data, clock, is_update)
         IN  IF is_update
             THEN LET row_number == find_row_in_sheets(env, rows, project_data.project_name)
                  IN  IF row_number # None
                      THEN IF env.write
                           THEN [ok |-> TRUE,
                                 msg |-> <<"Successfully updated in Google Sheets">>,
                                 sheet |-> SheetUpdate(rows, row_number, values)]
                           ELSE [ok |-> FALSE,
                                 msg |-> <<"Error syncing to Google Sheets: ", ApiError>>,
                                 sheet |-> rows]
                      ELSE [ok |-> FALSE,
                            msg |-> <<"Project not found in Google Sheets">>,
                            sheet |-> rows]
             ELSE IF env.write
                  THEN [ok |-> TRUE,
                        msg |-> <<"Successfully added to Google Sheets">>,
                        sheet |-> SheetAppend(rows, values)]
                  ELSE [ok |-> FALSE,
                        msg |-> <<"Error syncing to Google Sheets: ", ApiError>>,
                        sheet |-> rows]

(***************************************************************************)
(* The local table, src/app.py:223-264, 277-349                            *)
(*                                                                         *)
(* db is [projects, seq]: the rows of the table and the AUTOINCREMENT      *)
(* counter.  CURRENT_TIMESTAMP is the clock, in whole seconds.             *)
(***************************************************************************)
Names(rows) == {r.project_name : r \in rows}

\* the INSERT with two of its parameters in each other's place
InsertRow_Swapped(db, clock, project_data) ==
    [projects |-> db.projects \cup
        {[id |-> db.seq + 1,
          project_name |-> project_data.project_name,
          one_liner |-> project_data.one_liner,
          description |-> project_data.description,
          ai_usage |-> project_data.lead_name,
          lead_name |-> project_data.ai_usage,
          whatsapp_contact |-> project_data.whatsapp_contact,
          status |-> project_data.status,
          date_added |-> clock,
          last_updated |-> clock]},
     seq |-> db.seq + 1]

\* INSERT INTO projects (...) VALUES (...): id from AUTOINCREMENT, date_added
\* and last_updated from their DEFAULT CURRENT_TIMESTAMP
InsertRow(db, clock, project_data) ==
    [projects |-> db.projects \cup
        {[id |-> db.seq + 1,
          project_name |-> project_data.project_name,
          one_liner |-> project_data.one_liner,
          description |-> project_data.description,
          ai_usage |-> project_data.ai_usage,
          lead_name |-> project_data.lead_name,
          whatsapp_contact |-> project_data.whatsapp_contact,
          status |-> project_data.status,
          date_added |-> clock,
          last_updated |-> clock]},
     seq |-> db.seq + 1]

\* the table without its UNIQUE constraint
RaisesIntegrityError_NoUnique(db, project_data) == FALSE

\* project_name TEXT UNIQUE NOT NULL
RaisesIntegrityError(db, project_data) == project_data.project_name \in Names(db.projects)

\* the UPDATE without status in its SET list
UpdateRows_KeepStatus(db, clock, project_data) ==
    [projects |-> {IF r.project_name = project_data.project_name
                   THEN [r EXCEPT !.one_liner = project_data.one_liner,
                                  !.description = project_data.description,
                                  !.ai_usage = project_data.ai_usage,
                                  !.lead_name = project_data.lead_name,
                                  !.whatsapp_contact = project_data.whatsapp_contact,
                                  !.last_updated = clock]
                   ELSE r : r \in db.projects},
     seq |-> db.seq]

\* UPDATE projects SET ..., last_updated = CURRENT_TIMESTAMP WHERE project_name = ?
UpdateRows(db, clock, project_data) ==
    [projects |-> {IF r.project_name = project_data.project_name
                   THEN [r EXCEPT !.one_liner = project_data.one_liner,
                                  !.description = project_data.description,
                                  !.ai_usage = project_data.ai_usage,
                                  !.lead_name = project_data.lead_name,
                                  !.whatsapp_contact = project_data.whatsapp_contact,
                                  !.status = project_data.status,
                                  !.last_updated = clock]
                   ELSE r : r \in db.projects},
     seq |-> db.seq]

\* DELETE FROM projects WHERE project_name = ?
DeleteRows(db, project_name) ==
    [projects |-> {r \in db.projects : r.project_name # project_name},
     seq |-> db.seq]

SampleProject ==
    [project_name |-> "Sample Project",
     one_liner |-> <<"T", "h", "i", "s", " ", "i", "s", " ", "a", " ", "s", "a", "m", "p", "l", "e", " ", "p", "r", "o", "j", "e", "c", "t">>,
     description |-> <<"T", "h", "i", "s", " ", "i", "s", " ", "a", " ", "s", "a", "m", "p", "l", "e", " ", "d", "e", "s", "c", "r", "i", "p", "t", "i", "o", "n">>,
     ai_usage |-> "This project uses AI for demonstration",
     lead_name |-> "Admin",
     whatsapp_contact |-> <<"+", "1", "2", "3", "4", "5", "6", "7", "8", "9", "0">>,
     status |-> "Idea"]

\* CREATE TABLE IF NOT EXISTS, then the sample row when the table is empty
init_db(db, clock) ==
    IF db.projects = {} THEN InsertRow(db, clock, SampleProject) ELSE db

\* SELECT * FROM projects ORDER BY date_added DESC; rows with equal date_added
\* come in the order of their id
RECURSIVE SortedRows(_)
SortedRows(rows) ==
    IF rows = {} THEN <<>>
    ELSE LET first == CHOOSE r \in rows : \A q \in rows :
                          \/ r.date_added > q.date_added
                          \/ r.date_added = q.date_added /\ r.id <= q.id
         IN  <<first>> \o SortedRows(rows \ {first})

get_all_projects(db) == SortedRows(db.projects)

\* add_project reporting a failed sync the way delete_project does
add_project_FailOnSync(db, rows, clock, project_data, env) ==
    IF RaisesIntegrityError(db, project_data)
    THEN [success |-> FALSE, message |-> <<"Project name already exists!">>,
          db |-> db, sheet |-> rows]
    ELSE LET sync == sync_to_sheets(rows, clock, project_data, FALSE, env)
         IN  [success |-> sync.ok,
              message |-> IF ~sync.ok
                          THEN <<"Project registered in database, but ">> \o sync.msg
                          ELSE <<"Project successfully registered and synced to Google Sheets!">>,
              db |-> InsertRow(db, clock, project_data),
              sheet |-> sync.sheet]

\* each function returns [success, message] and the table and sheet it leaves
add_project(db, rows, clock, project_data, env) ==
    IF RaisesIntegrityError(db, project_data)
    THEN [success |-> FALSE, message |-> <<"Project name already exists!">>,
          db |-> db, sheet |-> rows]
    ELSE LET sync == sync_to_sheets(rows, clock, project_data, FALSE, env)
         IN  [success |-> TRUE,
              message |-> IF ~sync.ok
                          THEN <<"Project registered in database, but ">> \o sync.msg
                          ELSE <<"Project successfully registered and synced to Google Sheets!">>,
              db |-> InsertRow(db, clock, project_data),
              sheet |-> sync.sheet]

update_project(db, rows, clock, project_data, env) ==
    LET sync == sync_to_sheets(rows, clock, project_data, TRUE, env)
    IN  [success |-> TRUE,
         message |-> IF ~sync.ok
                     THEN <<"Project updated in database, but ">> \o sync.msg
                     ELSE <<"Project successfully updated and synced to Google Sheets!">>,
         db |-> UpdateRows(db, clock, project_data),
         sheet |-> sync.sheet]

\* delete_project clearing the row below the one it found
delete_project_OffByOne(db, rows, project_name, env) ==
    LET deleted == DeleteRows(db, project_name)
    IN  IF ~init_google_sheets(env)
        THEN [success |-> FALSE,
              message |-> <<"Project deleted from database but failed to connect to Google Sheets">>,
              db |-> deleted, sheet |-> rows]
        ELSE LET row_number == find_row_in_sheets(env, rows, project_name)
             IN  IF row_number # None
                 THEN IF env.write
                      THEN [success |-> TRUE,
                            message |-> <<"Project successfully deleted from database and Google Sheets">>,
                            db |-> deleted,
                            sheet |-> IF row_number <= Len(rows)
                                      THEN SheetClear(rows, row_number + 1)
                                      ELSE rows]
                      ELSE [success |-> FALSE,
                            message |-> <<"Error deleting project: ", ApiError>>,
                            db |-> deleted, sheet |-> rows]
                 ELSE [success |-> TRUE, message |-> <<"Project deleted from database">>,
                       db |-> deleted, sheet |-> rows]

delete_project(db, rows, project_name, env) ==
    LET deleted == DeleteRows(db, project_name)
    IN  IF ~init_google_sheets(env)
        THEN [success |-> FALSE,
              message |-> <<"Project deleted from database but failed to connect to Google Sheets">>,
              db |-> deleted, sheet |-> rows]
        ELSE LET row_number == find_row_in_sheets(env, rows, project_name)
             IN  IF row_number # None
                 THEN IF env.write
                      THEN [success |-> TRUE,
                            message |-> <<"Project successfully deleted from database and Google Sheets">>,
                            db |-> deleted, sheet |-> SheetClear(rows, row_number)]
                      ELSE [success |-> FALSE,
                            message |-> <<"Error deleting project: ", ApiError>>,
                            db |-> deleted, sheet |-> rows]
                 ELSE [success |-> TRUE, message |-> <<"Project deleted from database">>,
                       db |-> deleted, sheet |-> rows]

(***************************************************************************)
(* Inputs                                                                  *)
(***************************************************************************)
\* the name the calls and the forms use besides that of the sample project
ProjectNames == {"Alpha"}

Contact13 == <<"+", "2", "3", "4", "7", "0", "1", "2", "3", "4", "5", "6", "7", "8">>
Contact11 == <<"+", "1", "5", "5", "5", "0", "1", "0", "0", "0", "0", "1">>

\* two sets of field values that differ in every field; the second is at
\* the limits of the validation
Fields1 ==
    [one_liner |-> <<"o", "n", "e">>, description |-> Words(2), ai_usage |-> "vision",
     lead_name |-> "Ada", whatsapp_contact |-> Contact13, status |-> "Idea"]
Fields2 ==
    [one_liner |-> Chars(MaxOneLiner), description |-> Words(MaxDescriptionWords),
     ai_usage |-> "speech", lead_name |-> "Bola", whatsapp_contact |-> Contact11,
     status |-> "MVP"]
FieldValues == {Fields1, Fields2}

ProjectData(name, f) ==
    [project_name |-> name, one_liner |-> f.one_liner, description |-> f.description,
     ai_usage |-> f.ai_usage, lead_name |-> f.lead_name,
     whatsapp_contact |-> f.whatsapp_contact, status |-> f.status]

ProjectInputs == {ProjectData(n, f) : n \in ProjectNames, f \in FieldValues}

(***************************************************************************)
(* The state machine of the functions: add_project, update_project and     *)
(* delete_project called one after the other on the table and the sheet,   *)
(* while the clock advances.                                               *)
(***************************************************************************)
NoCall ==
    [op |-> "none", arg |-> "", env |-> <<>>, projects |-> {}, sheet |-> <<>>,
     success |-> FALSE, message |-> <<>>]

\* the record of a call: its argument, the table and the sheet it found,
\* what the mirror did during it, and the (success, message) it returned
Call(op, arg, env, db, rows, result) ==
    [op |-> op, arg |-> arg, env |-> env, projects |-> db.projects, sheet |-> rows,
     success |-> result.success, message |-> result.message]

\* the sessions that run update_project at the same time
Sessions == {"s1", "s2"}

\* a call of update_project in progress: the step it is at, its argument,
\* whether its UPDATE matched a row, the row and the values of its mirror step
IdleCall ==
    [pc |-> "idle", project_data |-> <<>>, matched |-> FALSE, values |-> <<>>,
     row_number |-> None, message |-> <<>>]

\* no call in progress; committed and written list the sessions in the order
\* of their UPDATE commits and of their mirror row updates
NoCalls == [of |-> [s \in Sessions |-> IdleCall], committed |-> <<>>, written |-> <<>>]

\* st.session_state of a new session
NoSession == [k \in {} |-> FALSE]

NoRun ==
    [button |-> "", username |-> "", password |-> "", form |-> <<>>,
     projects |-> {}, sheet |-> <<>>]

Db == [projects |-> projects, seq |-> seq]

Init ==
    /\ projects = init_db([projects |-> {}, seq |-> 0], 0).projects
    /\ seq = init_db([projects |-> {}, seq |-> 0], 0).seq
    /\ sheet = <<>>
    /\ now = 0
    /\ session_state = NoSession
    /\ project_to_edit = ""
    /\ rendered = {}
    /\ run = NoRun
    /\ last = NoCall
    /\ calls = NoCalls

Tick ==
    /\ now < MaxClock
    /\ now' = now + 1
    /\ last' = NoCall
    /\ run' = NoRun
    /\ UNCHANGED <<projects, seq, sheet, session_state, project_to_edit, rendered, calls>>

AddProject ==
    \E project_data \in ProjectInputs, env \in Envs :
        /\ RaisesIntegrityError(Db, project_data) \/ seq < MaxId
        /\ \E r \in {add_project(Db, sheet, now, project_data, env)} :
               /\ projects' = r.db.projects
               /\ seq' = r.db.seq
               /\ sheet' = r.sheet
               /\ last' = Call("add_project", project_data, env, Db, sheet, r)
        /\ UNCHANGED <<now, session_state, project_to_edit, rendered, run, calls>>

UpdateProject ==
    \E project_data \in ProjectInputs, env \in Envs :
        /\ \E r \in {update_project(Db, sheet, now, project_data, env)} :
               /\ projects' = r.db.projects
               /\ seq' = r.db.seq
               /\ sheet' = r.sheet
               /\ last' = Call("update_project", project_data, env, Db, sheet, r)
        /\ UNCHANGED <<now, session_state, project_to_edit, rendered, run, calls>>

DeleteProject ==
    \E project_name \in ProjectNames, env \in Envs :
        /\ \E r \in {delete_project(Db, sheet, project_name, env)} :
               /\ projects' = r.db.projects
               /\ seq' = r.db.seq
               /\ sheet' = r.sheet
               /\ last' = Call("delete_project", project_name, env, Db, sheet, r)
        /\ UNCHANGED <<now, session_state, project_to_edit, rendered, run, calls>>

Next == Tick \/ AddProject \/ UpdateProject \/ DeleteProject

Spec == Init /\ [][Next]_vars

(***************************************************************************)
(* The Streamlit script, src/app.py:42-65, 361-619                         *)
(*                                                                         *)
(* Each user action reruns main() from the top.  button is the button      *)
(* whose press caused the run ("" when a widget value changed or the       *)
(* script reran itself): st.button and st.form_submit_button return True   *)
(* for that button only, and only a button drawn by the previous run can   *)
(* be pressed.  A widget that a run does not draw loses its value.         *)
(***************************************************************************)
ADMIN_USERNAME == "admin"

\* hashlib.sha256(password.encode()).hexdigest(): a digest per password,
\* taken to be free of collisions
sha256(password) == "sha256(" \o password \o ")"

ADMIN_PASSWORD == sha256("s3cret")

\* str.lower() on the usernames a user types here
Lower(username) ==
    CASE username = "Admin" -> "admin"
      [] username = "ADMIN" -> "admin"
      [] OTHER -> username

Usernames == {"admin", "Admin", "guest"}
Passwords == {"s3cret", "S3cret"}

\* check_password whose last line returns True
check_password_ReturnsTrue(ss, button, username, password) ==
    LET ss1 == IF "password_correct" \in DOMAIN ss THEN ss
               ELSE [password_correct |-> FALSE]
    IN  IF ss1.password_correct
        THEN [result |-> TRUE, session_state |-> ss1, rendered |-> {}]
        ELSE IF button = "Login"
             THEN IF /\ Lower(username) = ADMIN_USERNAME
                     /\ sha256(password) = ADMIN_PASSWORD
                  THEN [result |-> TRUE,
                        session_state |-> [ss1 EXCEPT !.password_correct = TRUE],
                        rendered |-> {"Login"}]
                  ELSE [result |-> FALSE, session_state |-> ss1, rendered |-> {"Login"}]
             ELSE [result |-> TRUE, session_state |-> ss1, rendered |-> {"Login"}]

\* returns its result, the session state it leaves and the buttons it drew
check_password(ss, button, username, password) ==
    LET ss1 == IF "password_correct" \in DOMAIN ss THEN ss
               ELSE [password_correct |-> FALSE]
    IN  IF ss1.password_correct
        THEN [result |-> TRUE, session_state |-> ss1, rendered |-> {}]
        ELSE IF button = "Login"
             THEN IF /\ Lower(username) = ADMIN_USERNAME
                     /\ sha256(password) = ADMIN_PASSWORD
                  THEN [result |-> TRUE,
                        session_state |-> [ss1 EXCEPT !.password_correct = TRUE],
                        rendered |-> {"Login"}]
                  ELSE [result |-> FALSE, session_state |-> ss1, rendered |-> {"Login"}]
             ELSE [result |-> FALSE, session_state |-> ss1, rendered |-> {"Login"}]

\* all([project_name, one_liner, description, ai_usage, lead_name, whatsapp_contact])
AllFilled(d) ==
    /\ d.project_name # ""
    /\ d.one_liner # <<>>
    /\ d.description # <<>>
    /\ d.ai_usage # ""
    /\ d.lead_name # ""
    /\ d.whatsapp_contact # <<>>

\* the checks of the registration form, in the order of the code
RegisterChecks(d) ==
    /\ AllFilled(d)
    /\ validate_one_liner(d.one_liner)
    /\ validate_description(d.description)
    /\ validate_whatsapp(d.whatsapp_contact)

\* the registration form without its contact check
RegisterTab_NoContactCheck(db, rows, clock, button, form, env) ==
    IF button # "Register Project"
    THEN [returned |-> FALSE, db |-> db, sheet |-> rows, call |-> NoCall]
    ELSE IF ~(AllFilled(form) /\ validate_one_liner(form.one_liner)
                /\ validate_description(form.description))
         THEN [returned |-> TRUE, db |-> db, sheet |-> rows, call |-> NoCall]
         ELSE LET r == add_project(db, rows, clock, form, env)
              IN  [returned |-> FALSE, db |-> r.db, sheet |-> r.sheet,
                   call |-> Call("add_project", form, env, db, rows, r)]

\* with tabs[1]: the form "project_registration"; returned says that main
\* returned from inside it
RegisterTab(db, rows, clock, button, form, env) ==
    IF button # "Register Project"
    THEN [returned |-> FALSE, db |-> db, sheet |-> rows, call |-> NoCall]
    ELSE IF ~RegisterChecks(form)
         THEN [returned |-> TRUE, db |-> db, sheet |-> rows, call |-> NoCall]
         ELSE LET r == add_project(db, rows, clock, form, env)
              IN  [returned |-> FALSE, db |-> r.db, sheet |-> r.sheet,
                   call |-> Call("add_project", form, env, db, rows, r)]

\* the checks of the edit form
EditChecks(f) ==
    /\ f.one_liner # <<>>
    /\ f.description # <<>>
    /\ f.ai_usage # ""
    /\ f.lead_name # ""
    /\ f.whatsapp_contact # <<>>
    /\ validate_whatsapp(f.whatsapp_contact)

\* the state a run of main leaves
EndRun(db, rows, clock, ss, selected, drawn, call) ==
    [db |-> db, sheet |-> rows, now |-> clock, session_state |-> ss,
     project_to_edit |-> selected, rendered |-> drawn, call |-> call]

\* with tabs[2], after check_password: the selectbox, the delete buttons and
\* the form "project_edit"
EditTab(db, rows, clock, ss, button, selected, form, env, drawn, call) ==
    LET all_projects == get_all_projects(db)
        options == {all_projects[i].project_name : i \in 1..Len(all_projects)}
    IN  IF all_projects = <<>>
        THEN EndRun(db, rows, clock, ss, "", drawn, call)
        ELSE IF selected \notin options
        THEN EndRun(db, rows, clock, ss, "", drawn \cup {"Select Project to Edit"}, call)
        ELSE LET delete_button == button = "Delete Project"
                 drawn2 == drawn \cup {"Select Project to Edit", "Delete Project"}
                              \cup (IF delete_button THEN {"Yes, Delete", "Cancel"} ELSE {})
                 confirmed == delete_button /\ button = "Yes, Delete"
                 del == delete_project(db, rows, selected, env)
                 db2 == IF confirmed THEN del.db ELSE db
                 rows2 == IF confirmed THEN del.sheet ELSE rows
                 call2 == IF confirmed
                          THEN Call("delete_project", selected, env, db, rows, del)
                          ELSE call
             IN  IF confirmed /\ del.success
                 THEN \* time.sleep(1); st.rerun()
                      EndRun(db2, rows2, IF clock < MaxClock THEN clock + 1 ELSE clock,
                             ss, selected, drawn2, call2)
                 ELSE IF delete_button /\ button = "Cancel"
                 THEN \* st.rerun()
                      EndRun(db2, rows2, clock, ss, selected, drawn2, call2)
                 ELSE LET drawn3 == drawn2 \cup {"Update Project"}
                      IN  IF button # "Update Project" \/ ~EditChecks(form)
                          THEN EndRun(db2, rows2, clock, ss, selected, drawn3, call2)
                          ELSE LET project_data == ProjectData(selected, form)
                                   r == update_project(db2, rows2, clock, project_data, env)
                               IN  EndRun(r.db, r.sheet, clock, ss, selected, drawn3,
                                          Call("update_project", project_data, env,
                                               db2, rows2, r))

\* one run of the script
main(db, rows, clock, ss, button, username, password, selected, form, env) ==
    LET db1 == init_db(db, clock)
        reg == RegisterTab(db1, rows, clock, button, form, env)
        drawn1 == {"Register Project"}
    IN  IF reg.returned
        THEN EndRun(reg.db, reg.sheet, clock, ss, "", drawn1, reg.call)
        ELSE LET cp == check_password(ss, button, username, password)
             IN  IF ~cp.result
                 THEN EndRun(reg.db, reg.sheet, clock, cp.session_state, "",
                             drawn1 \cup cp.rendered, reg.call)
                 ELSE EditTab(reg.db, reg.sheet, clock, cp.session_state, button,
                              selected, form, env, drawn1 \cup cp.rendered, reg.call)

(***************************************************************************)
(* The state machine of a session: the runs of main that the user's        *)
(* actions cause.                                                          *)
(***************************************************************************)
BadContacts ==
    {<<"2", "3", "4", "7", "0", "1", "2", "3", "4", "5", "6", "7", "8">>,
     <<"+", "1", "2", "3", "4", "5", "6", "7", "8", "9", "0">>,
     <<"+", "2", "3", "4", " ", "7", "0", "1", "2", "3", "4", "5", "6", "7", "8">>}

Valid1 == ProjectData("Alpha", Fields1)
Valid2 == ProjectData("Alpha", Fields2)

RegisterForms ==
    {Valid1, Valid2,
     [Valid1 EXCEPT !.project_name = "Sample Project"],
     [Valid1 EXCEPT !.project_name = ""],
     [Valid1 EXCEPT !.one_liner = <<>>],
     [Valid1 EXCEPT !.description = <<>>],
     [Valid1 EXCEPT !.ai_usage = ""],
     [Valid1 EXCEPT !.lead_name = ""],
     [Valid1 EXCEPT !.whatsapp_contact = <<>>],
     [Valid2 EXCEPT !.one_liner = Chars(MaxOneLiner + 1)],
     [Valid2 EXCEPT !.description = Words(MaxDescriptionWords + 1)]}
    \cup {[Valid1 EXCEPT !.whatsapp_contact = c] : c \in BadContacts}

EditForms ==
    {Fields2,
     [Fields1 EXCEPT !.lead_name = ""],
     [Fields1 EXCEPT !.whatsapp_contact = <<"+", "1", "2", "3", "4", "5", "6", "7", "8", "9", "0">>]}

NoForm == <<>>

\* a run of main caused by button, with the widget values the user left
Run(button, username, password, selected, form, env) ==
    \E r \in {main(Db, sheet, now, session_state, button, username, password,
                 selected, form, env)} :
        /\ projects' = r.db.projects
        /\ seq' = r.db.seq
        /\ sheet' = r.sheet
        /\ now' = r.now
        /\ session_state' = r.session_state
        /\ project_to_edit' = r.project_to_edit
        /\ rendered' = r.rendered
        /\ last' = r.call
        /\ run' = [button |-> button, username |-> username, password |-> password,
                   form |-> form, projects |-> projects, sheet |-> sheet]
        /\ UNCHANGED calls

\* the page is opened or reloaded, or the script reruns itself
Rerun == Run("", "", "", project_to_edit, NoForm, AllWork)

SelectProject ==
    \E name \in Names(projects) \cup {""} :
        /\ "Select Project to Edit" \in rendered
        /\ Run("", "", "", name, NoForm, AllWork)

PressLogin ==
    \E username \in Usernames, password \in Passwords :
        /\ "Login" \in rendered
        /\ Run("Login", username, password, project_to_edit, NoForm, AllWork)

\* the mirror is reached only for a form that passes the checks
SubmitRegister ==
    \E form \in RegisterForms :
      \E env \in IF RegisterChecks(form) THEN Envs ELSE {AllWork} :
        /\ "Register Project" \in rendered
        /\ seq < MaxId
        /\ Run("Register Project", "", "", project_to_edit, form, env)

PressDelete ==
    /\ "Delete Project" \in rendered
    /\ Run("Delete Project", "", "", project_to_edit, NoForm, AllWork)

PressYesDelete ==
    \E env \in Envs :
        /\ "Yes, Delete" \in rendered
        /\ Run("Yes, Delete", "", "", project_to_edit, NoForm, env)

PressCancel ==
    /\ "Cancel" \in rendered
    /\ Run("Cancel", "", "", project_to_edit, NoForm, AllWork)

SubmitUpdate ==
    \E form \in EditForms :
      \E env \in IF EditChecks(form) THEN Envs ELSE {AllWork} :
        /\ "Update Project" \in rendered
        /\ Run("Update Project", "", "", project_to_edit, form, env)

NextUI ==
    \/ Tick
    \/ Rerun
    \/ SelectProject
    \/ PressLogin
    \/ SubmitRegister
    \/ PressDelete
    \/ PressYesDelete
    \/ PressCancel
    \/ SubmitUpdate

SpecUI == Init /\ [][NextUI]_vars

(***************************************************************************)
(* Properties of the functions                                             *)
(***************************************************************************)
RowsNamed(rows, name) == {r \in rows : r.project_name = name}

\* the six fields a form edits
SameFields(r, d) ==
    /\ r.one_liner = d.one_liner
    /\ r.description = d.description
    /\ r.ai_usage = d.ai_usage
    /\ r.lead_name = d.lead_name
    /\ r.whatsapp_contact = d.whatsapp_contact
    /\ r.status = d.status

AllFieldsDiffer(r, d) ==
    /\ r.one_liner # d.one_liner
    /\ r.description # d.description
    /\ r.ai_usage # d.ai_usage
    /\ r.lead_name # d.lead_name
    /\ r.whatsapp_contact # d.whatsapp_contact
    /\ r.status # d.status

Listed == get_all_projects(Db)
ListedRows == {Listed[i] : i \in 1..Len(Listed)}

DuplicateAdd ==
    /\ last.op = "add_project"
    /\ last.arg.project_name \in Names(last.projects)

\* C1: add_project with a name that is already in the table returns
\* (False, 'Project name already exists!'), leaves exactly one row for that
\* name, the original one, and appends nothing to the mirror.
C1_DuplicateNameRejected ==
    DuplicateAdd =>
        /\ last.success = FALSE
        /\ last.message = <<"Project name already exists!">>
        /\ Cardinality(RowsNamed(projects, last.arg.project_name)) = 1
        /\ RowsNamed(projects, last.arg.project_name)
              = RowsNamed(last.projects, last.arg.project_name)
        /\ projects = last.projects
        /\ sheet = last.sheet

\* a duplicate add whose field values differ from the stored ones
C1_Witness ==
    /\ DuplicateAdd
    /\ \E r \in RowsNamed(last.projects, last.arg.project_name) :
           AllFieldsDiffer(r, last.arg)

FreshAdd ==
    /\ last.op = "add_project"
    /\ last.arg.project_name \notin Names(last.projects)

\* C2: after add_project of a name not yet in the table, get_all_projects
\* lists a record with the seven input values and date_added = last_updated.
C2_AddThenList ==
    FreshAdd =>
        \E r \in ListedRows :
            /\ r.project_name = last.arg.project_name
            /\ SameFields(r, last.arg)
            /\ r.date_added = r.last_updated

\* a fresh add into a table that already holds another project
C2_Witness ==
    /\ FreshAdd
    /\ last.projects # {}
    /\ Len(Listed) = Cardinality(last.projects) + 1

\* update_project of a registered project with new values for all six fields
RoundTrip ==
    /\ last.op = "update_project"
    /\ \E r \in RowsNamed(last.projects, last.arg.project_name) :
           AllFieldsDiffer(r, last.arg)

\* C3 as claimed: after add_project and then update_project with new values
\* for every field but the name, the listed record holds the new values, the
\* same name, and last_updated > date_added.
C3_RoundTripStrict ==
    RoundTrip =>
        /\ Cardinality(RowsNamed(ListedRows, last.arg.project_name)) = 1
        /\ \A r \in RowsNamed(ListedRows, last.arg.project_name) :
              /\ SameFields(r, last.arg)
              /\ r.last_updated > r.date_added

\* C3 as amended: after add_project and then update_project with new values
\* for every field but the name, the listed record holds the new values, the
\* same name and id and date_added, and last_updated is the clock of the
\* update: at least date_added, and greater exactly when the clock has
\* advanced since the registration.
C3_RoundTrip ==
    RoundTrip =>
        /\ Cardinality(RowsNamed(ListedRows, last.arg.project_name)) = 1
        /\ \A r \in RowsNamed(ListedRows, last.arg.project_name) :
              /\ SameFields(r, last.arg)
              /\ \E q \in RowsNamed(last.projects, last.arg.project_name) :
                    r.id = q.id /\ r.date_added = q.date_added
              /\ r.last_updated = now
              /\ r.last_updated >= r.date_added
              /\ (r.last_updated > r.date_added) <=> (now > r.date_added)

\* a round trip during which the clock advanced
C3_Witness ==
    /\ RoundTrip
    /\ \E r \in RowsNamed(projects, last.arg.project_name) :
           r.last_updated > r.date_added

\* the first row of the sheet that is named name, none before it being empty
Locatable(rows, name) ==
    \E i \in 1..Len(rows) :
        /\ rows[i] # <<>>
        /\ rows[i][1] = name
        /\ \A j \in 1..(i - 1) : rows[j] # <<>>

\* the mirror step of the last add_project or update_project failed
MirrorStepFailed ==
    \/ /\ FreshAdd
       /\ last.env.service = FALSE \/ last.env.write = FALSE
    \/ /\ last.op = "update_project"
       /\ last.env # AllWork \/ ~Locatable(last.sheet, last.arg.project_name)

DatabaseOkPrefixes ==
    {"Project registered in database, but ", "Project updated in database, but "}
GoogleSheetsFragments ==
    {"Failed to connect to Google Sheets", "Project not found in Google Sheets",
     "Error syncing to Google Sheets: "}

\* C4: when the mirror step of add_project or update_project fails, the
\* function returns success True with a message that says the database write
\* succeeded and names Google Sheets, and the local insert or update stays
\* as it was made.
C4_MirrorFailureIsolated ==
    MirrorStepFailed =>
        /\ last.success = TRUE
        /\ Len(last.message) >= 2
        /\ last.message[1] \in DatabaseOkPrefixes
        /\ last.message[2] \in GoogleSheetsFragments
        /\ (last.op = "add_project") =>
              \E r \in RowsNamed(projects, last.arg.project_name) :
                  SameFields(r, last.arg) /\ r.date_added = now
        /\ \A r \in RowsNamed(projects, last.arg.project_name) :
              SameFields(r, last.arg) /\ r.last_updated = now
        /\ \A r \in projects : r.project_name # last.arg.project_name => r \in last.projects
        /\ sheet = last.sheet

\* an update of a stored project whose mirror write raised
C4_Witness ==
    /\ MirrorStepFailed
    /\ last.op = "update_project"
    /\ last.env.write = FALSE
    /\ Locatable(last.sheet, last.arg.project_name)
    /\ RowsNamed(projects, last.arg.project_name) # {}

\* the mirror could not be reached during the last delete_project
DeleteMirrorDown ==
    /\ last.op = "delete_project"
    /\ \/ last.env.service = FALSE
       \/ last.env.write = FALSE /\ Locatable(last.sheet, last.arg)

\* C5: when delete_project cannot reach the mirror, the local row is removed
\* and the call returns success True.
C5_DeleteReportedWithMirrorDown ==
    DeleteMirrorDown =>
        /\ last.arg \notin Names(projects)
        /\ last.success = TRUE

\* C6: update_project and delete_project of a name that is not in the table
\* leave get_all_projects as it was, and the delete is not reported as an
\* error.
C6_AbsentNameNoOp ==
    (/\ last.op \in {"update_project", "delete_project"}
     /\ (IF last.op = "delete_project" THEN last.arg ELSE last.arg.project_name)
           \notin Names(last.projects)) =>
        /\ Listed = get_all_projects([projects |-> last.projects, seq |-> seq])
        /\ last.op = "delete_project" => last.success = TRUE

\* the part of C6 about the table: update_project and delete_project of a name
\* that is not in the table leave every row as it was
AbsentNameLeavesTable ==
    (/\ last.op \in {"update_project", "delete_project"}
     /\ (IF last.op = "delete_project" THEN last.arg ELSE last.arg.project_name)
           \notin Names(last.projects)) =>
        Listed = get_all_projects([projects |-> last.projects, seq |-> seq])

DeleteOfPresent ==
    /\ last.op = "delete_project"
    /\ last.arg \in Names(last.projects)

MaxDigits == 14

\* the digits of the example +2347012345678, repeated
DigitRun(n) == [i \in 1..n |-> Contact13[2 + ((i - 1) % (Len(Contact13) - 1))]]

Heads == {<<>>, <<"+">>, <<"+", "+">>, <<"x">>}
Tails == {<<>>, <<"\n">>, <<"\n", "\n">>, <<" ">>, <<"x">>}

ContactInputs ==
    {h \o DigitRun(n) \o t : h \in Heads, n \in 0..MaxDigits, t \in Tails}
    \cup {[Contact13 EXCEPT ![k] = c] : k \in {2, 8, 14}, c \in {"u0663", "a", " "}}

InitValidate ==
    /\ projects = init_db([projects |-> {}, seq |-> 0], 0).projects
    /\ seq = init_db([projects |-> {}, seq |-> 0], 0).seq
    /\ sheet = <<>>
    /\ now = 0
    /\ session_state = NoSession
    /\ project_to_edit = ""
    /\ rendered = {}
    /\ run = NoRun
    /\ calls = NoCalls
    /\ \E number \in ContactInputs : last = [NoCall EXCEPT !.op = "input", !.arg = number]

ValidateWhatsapp ==
    /\ last.op = "input"
    /\ last' = [last EXCEPT !.op = "validate_whatsapp",
                            !.success = validate_whatsapp(last.arg)]
    /\ UNCHANGED <<projects, seq, sheet, now, session_state, project_to_edit,
                   rendered, run, calls>>

NextValidate == ValidateWhatsapp

SpecValidate == InitValidate /\ [][NextValidate]_vars

Example13 == Contact13
Example12 == SubSeq(Contact13, 1, Len(Contact13) - 1)
ExampleNoPlus == SubSeq(Contact13, 2, Len(Contact13))

\* '+' and then between lo and hi digits, and nothing else
PlusDigits(s, lo, hi) ==
    /\ Len(s) >= 1
    /\ s[1] = "+"
    /\ Len(s) - 1 >= lo
    /\ Len(s) - 1 <= hi
    /\ \A i \in 2..Len(s) : s[i] \in Digits

WithoutFinalNewline(s) ==
    IF Len(s) >= 1 /\ s[Len(s)] = "\n" THEN SubSeq(s, 1, Len(s) - 1) ELSE s

Validated == last.op = "validate_whatsapp"

\* C8 as claimed: validate_whatsapp accepts exactly '+', a country code of 1
\* to 3 digits and 10 subscriber digits; it is true of +2347012345678, false
\* of +234701234567 and false of 2347012345678.
C8_AsClaimed ==
    Validated =>
        /\ last.success <=> PlusDigits(last.arg, CountryCodeMin + SubscriberDigits,
                                        CountryCodeMax + SubscriberDigits)
        /\ last.arg = Example13 => last.success = TRUE
        /\ last.arg = Example12 => last.success = FALSE
        /\ last.arg = ExampleNoPlus => last.success = FALSE

\* C8 as amended: validate_whatsapp accepts exactly '+' and then 11 to 13
\* digits, with or without one final newline; it is true of +2347012345678,
\* true of +234701234567 (a code of 2 digits and 10 more) and false of
\* 2347012345678.
C8_ValidContact ==
    Validated =>
        /\ last.success <=> PlusDigits(WithoutFinalNewline(last.arg),
                                        CountryCodeMin + SubscriberDigits,
                                        CountryCodeMax + SubscriberDigits)
        /\ last.arg = Example13 => last.success = TRUE
        /\ last.arg = Example12 => last.success = TRUE
        /\ last.arg = ExampleNoPlus => last.success = FALSE

\* +234701234567 has been validated and accepted
C8_Witness ==
    /\ Validated
    /\ last.arg = Example12
    /\ last.success = TRUE

(***************************************************************************)
(* Properties of a session                                                 *)
(***************************************************************************)
Authenticated ==
    /\ "password_correct" \in DOMAIN session_state
    /\ session_state.password_correct = TRUE

LoginMatches ==
    /\ run.button = "Login"
    /\ Lower(run.username) = ADMIN_USERNAME
    /\ sha256(run.password) = ADMIN_PASSWORD

\* C9: update_project and delete_project are called only in a run in which
\* st.session_state.password_correct is True; the flag becomes True only in
\* a run caused by Login with a username whose lower case is the admin
\* username and a password whose SHA-256 digest is the configured one; and
\* once True the flag stays True.
C9_AccessGate ==
    /\ [](last.op \in {"update_project", "delete_project"} => Authenticated)
    /\ [][(~Authenticated /\ Authenticated') => LoginMatches']_vars
    /\ [][Authenticated => Authenticated']_vars

\* update_project has been called in a session that logged in as "Admin"
C9_Witness ==
    /\ last.op = "update_project"
    /\ Authenticated
    /\ run.button = "Update Project"
    /\ last.arg.project_name = "Sample Project"

\* the registration form of the last run fails one of the four checks
RegisterRejected ==
    /\ run.button = "Register Project"
    /\ \/ run.form.project_name = ""
       \/ run.form.one_liner = <<>>
       \/ run.form.description = <<>>
       \/ run.form.ai_usage = ""
       \/ run.form.lead_name = ""
       \/ run.form.whatsapp_contact = <<>>
       \/ Len(run.form.one_liner) > MaxOneLiner
       \/ SplitCount(run.form.description) > MaxDescriptionWords
       \/ ~validate_whatsapp(run.form.whatsapp_contact)

\* C10: a registration form with a required field empty, a one-liner of
\* more than 250 characters, a description of more than 100 words or a
\* contact that fails validate_whatsapp does not reach add_project and
\* leaves the table and the mirror as they were; add_project is called only
\* for a submitted registration form that passes the four checks.
C10_RegisterValidation ==
    /\ RegisterRejected =>
          /\ last.op # "add_project"
          /\ projects = run.projects
          /\ sheet = run.sheet
    /\ last.op = "add_project" =>
          /\ run.button = "Register Project"
          /\ last.arg = run.form
          /\ ~RegisterRejected

\* a form that only its contact makes invalid has been submitted
C10_Witness ==
    /\ RegisterRejected
    /\ run.form.whatsapp_contact \in BadContacts
    /\ run.form.project_name \notin Names(projects)
    /\ last.op = "none"

\* "Yes, Delete" is drawn only by a run that "Delete Project" caused, in a
\* session that is logged in and has a project selected; so a run caused by
\* "Yes, Delete" is the second press of the delete flow
ConfirmPressed == run.button = "Yes, Delete"

\* C11: when the user presses 'Delete Project' and then 'Yes, Delete',
\* delete_project is called for the selected project and removes its row;
\* and delete_project is called only by a 'Yes, Delete' press.
C11_DeleteFlow ==
    /\ ConfirmPressed =>
          /\ last.op = "delete_project"
          /\ last.arg = project_to_edit
          /\ last.arg \notin Names(projects)
    /\ last.op = "delete_project" => ConfirmPressed

\* what the script does instead: no run of main calls delete_project, and
\* the run that 'Yes, Delete' causes leaves the table and the sheet alone
DeleteUnreachableFromMain ==
    /\ last.op # "delete_project"
    /\ ConfirmPressed => projects = run.projects /\ sheet = run.sheet

(***************************************************************************)
(* find_row_in_sheets applied to the sheets that the calls leave           *)
(***************************************************************************)
LocateNames == ProjectNames \cup {SampleProject.project_name}

\* a call of find_row_in_sheets(service, project_name) on the sheet as it
\* is; the service exists, and values().get answers or raises
FindRow ==
    \E project_name \in LocateNames, env \in {e \in Envs : e.service} :
        /\ last' = [op |-> "find_row_in_sheets", arg |-> project_name, env |-> env,
                    sheet |-> sheet,
                    row_number |-> find_row_in_sheets(env, sheet, project_name)]
        /\ UNCHANGED <<projects, seq, sheet, now, session_state, project_to_edit,
                       rendered, run, calls>>

NextLocate == Next \/ FindRow

SpecLocate == Init /\ [][NextLocate]_vars

\* the indices of the rows of the sheet whose first cell is name
RowsWithName(rows, name) ==
    {i \in 1..Len(rows) : rows[i] # <<>> /\ rows[i][1] = name}

Located == last.op = "find_row_in_sheets" /\ last.env.get

\* C12: on every sheet that appends, replacements and clears leave, rows
\* left empty by a clear included, find_row_in_sheets(name) returns the sheet
\* row number (index + 2 from A2) of the first row whose first cell is name,
\* and None only when no row has name as its first cell.
C12_LocateFirstMatch ==
    Located =>
        IF RowsWithName(last.sheet, last.arg) = {}
        THEN last.row_number = None
        ELSE last.row_number = Min(RowsWithName(last.sheet, last.arg)) + 1

\* what the code does: the claim's answer as long as no empty row lies above
\* the first row named name, and None as soon as one does
LocateStopsAtEmptyRow ==
    Located =>
        IF Locatable(last.sheet, last.arg)
        THEN last.row_number = Min(RowsWithName(last.sheet, last.arg)) + 1
        ELSE last.row_number = None

(***************************************************************************)
(* Two sessions in update_project at the same time, src/app.py:283-317     *)
(*                                                                         *)
(* Each session runs the function once, and the steps of the two calls     *)
(* interleave: the UPDATE with its commit, the read of the sheet that      *)
(* locates the row, and the write of that row.  SQLite serialises the      *)
(* commits and the Sheets service serialises the requests, so each step is *)
(* atomic; the mirror is up and no request fails.  last records completed  *)
(* calls only, and the steps of a call in progress clear it.               *)
(***************************************************************************)
\* lines 286-307: the UPDATE and its commit
UpdateLocal(s) ==
    \E project_data \in ProjectInputs :
        /\ calls.of[s].pc = "idle"
        /\ \E db \in {UpdateRows(Db, now, project_data)} :
               /\ projects' = db.projects
               /\ seq' = db.seq
        /\ calls' = [calls EXCEPT
                        !.of[s] = [@ EXCEPT !.pc = "locate",
                                            !.project_data = project_data,
                                            !.matched = project_data.project_name
                                                            \in Names(projects)],
                        !.committed = Append(@, s)]
        /\ last' = NoCall
        /\ UNCHANGED <<sheet, now, session_state, project_to_edit, rendered, run>>

\* line 310 into sync_to_sheets, lines 168-187: the service, the row of
\* values with its timestamp, and find_row_in_sheets; lines 201-202 and
\* 312-313 when no row is found
UpdateLocate(s) ==
    /\ calls.of[s].pc = "locate"
    /\ init_google_sheets(AllWork)
    /\ \E row_number \in {find_row_in_sheets(AllWork, sheet,
                                             calls.of[s].project_data.project_name)} :
           calls' = [calls EXCEPT
                        !.of[s] = [@ EXCEPT
                            !.pc = IF row_number # None THEN "write" ELSE "done",
                            !.values = SheetRow(calls.of[s].project_data, now, TRUE),
                            !.row_number = row_number,
                            !.message =
                                IF row_number # None
                                THEN <<>>
                                ELSE <<"Project updated in database, but ",
                                       "Project not found in Google Sheets">>]]
    /\ last' = NoCall
    /\ UNCHANGED <<projects, seq, sheet, now, session_state, project_to_edit,
                   rendered, run>>

\* lines 188-200 and 315: values().update of the row found, and the return
UpdateMirror(s) ==
    /\ calls.of[s].pc = "write"
    /\ sheet' = SheetUpdate(sheet, calls.of[s].row_number, calls.of[s].values)
    /\ calls' = [calls EXCEPT
                    !.of[s] = [@ EXCEPT
                        !.pc = "done",
                        !.message =
                            <<"Project successfully updated and synced to Google Sheets!">>],
                    !.written = Append(@, s)]
    /\ last' = NoCall
    /\ UNCHANGED <<projects, seq, now, session_state, project_to_edit, rendered, run>>

\* the project is registered before the sessions open it to edit it
RegisterFirst ==
    /\ \A s \in Sessions : calls.of[s].pc = "idle"
    /\ AddProject

NextConcurrent ==
    \/ Tick
    \/ RegisterFirst
    \/ \E s \in Sessions : UpdateLocal(s)
    \/ \E s \in Sessions : UpdateLocate(s)
    \/ \E s \in Sessions : UpdateMirror(s)

SpecConcurrent == Init /\ [][NextConcurrent]_vars

\* the six fields an edit sets, of its argument or of a row of the table
SixFields(r) ==
    [one_liner |-> r.one_liner, description |-> r.description, ai_usage |-> r.ai_usage,
     lead_name |-> r.lead_name, whatsapp_contact |-> r.whatsapp_contact,
     status |-> r.status]

\* the same six fields of a row of the sheet, columns B to G
SixCells(row) ==
    [one_liner |-> row[2], description |-> row[3], ai_usage |-> row[4],
     lead_name |-> row[5], whatsapp_contact |-> row[6], status |-> row[7]]

EditedName == calls.of[CHOOSE s \in Sessions : TRUE].project_data.project_name

\* both calls have returned, on the same project, each UPDATE matched its
\* row and each call located the row of the mirror and wrote it
BothReturned ==
    /\ \A s \in Sessions :
           /\ calls.of[s].pc = "done"
           /\ calls.of[s].matched
           /\ calls.of[s].row_number # None
           /\ calls.of[s].project_data.project_name = EditedName

LocalSix == {SixFields(r) : r \in RowsNamed(projects, EditedName)}

MirrorSix == {SixCells(sheet[i]) : i \in RowsWithName(sheet, EditedName)}

LastOf(order) == order[Len(order)]

\* C13 as stated: once both calls have returned, the mirror row holds the
\* same six field values as the local row, for every interleaving.
C13_Converge == BothReturned => MirrorSix = LocalSix

\* C13: once both calls have returned, the local row holds the six values of
\* the edit whose UPDATE committed last and the mirror row holds the six
\* values of the edit whose row update ran last; the two orders are
\* independent, so the rows agree exactly when those two edits carry the
\* same values.
C13_LastWriterEach ==
    BothReturned =>
        /\ LocalSix = {SixFields(calls.of[LastOf(calls.committed)].project_data)}
        /\ MirrorSix = {SixFields(calls.of[LastOf(calls.written)].project_data)}

\* both calls returned, the last commit and the last row update are of
\* different sessions, and the mirror row differs from the local one
C13_Witness ==
    /\ BothReturned
    /\ LastOf(calls.committed) # LastOf(calls.written)
    /\ MirrorSix # LocalSix

====
